---- MODULE Spec2Model ----
(***************************************************************************)
(* Network Diagnostics report (pkg/ui/src/views/reports/containers/network *)
(* /index.tsx).  The component receives a nodesSummary (node statuses with *)
(* per-peer latencies, and a liveness status per node) and a route query   *)
(* (node_ids, locality); render() computes the healthy and stale node      *)
(* sets, the identities to display, the latency samples with their mean    *)
(* and sample standard deviation, the list of missing connections, and a   *)
(* heat band for every cell of the latency table.                          *)
(*                                                                         *)
(* Strings are sequences of one-character strings.  Durations are          *)
(* nanosecond counts that are whole milliseconds.  The mean and the        *)
(* variance are kept as exact fractions, and a comparison against          *)
(* mean +/- k*stddev is decided exactly by squaring; the rounding of the   *)
(* floating-point sums is not modelled, and matters only for a latency     *)
(* that equals a threshold.  Identity.updatedAt is display text only and   *)
(* is left out.                                                            *)
(***************************************************************************)
EXTENDS Integers, Sequences, FiniteSets, TLC

\* ------------------------------------------------------------------ bounds

\* Number of single-field changes of the store or the route after first load.
MaxEdits == 2

\* ----------------------------------------------------------------- strings

Digits == <<"0", "1", "2", "3", "4", "5", "6", "7", "8", "9">>

\* UTF-16 code units of the characters that occur in the model's strings.
CharCode ==
  [c \in {"(", ",", "0", "1", "2", "3", "4", "5", "6", "7", "8", "9", "=",
          "a", "c", "d", "e", "s", "t", "w", "x"} |->
     CASE c = "(" -> 40 [] c = "," -> 44
       [] c = "0" -> 48 [] c = "1" -> 49 [] c = "2" -> 50 [] c = "3" -> 51
       [] c = "4" -> 52 [] c = "5" -> 53 [] c = "6" -> 54 [] c = "7" -> 55
       [] c = "8" -> 56 [] c = "9" -> 57 [] c = "=" -> 61
       [] c = "a" -> 97 [] c = "c" -> 99 [] c = "d" -> 100 [] c = "e" -> 101
       [] c = "s" -> 115 [] c = "t" -> 116 [] c = "w" -> 119 [] c = "x" -> 120]

IsDigit(c) == \E d \in 1..10 : Digits[d] = c

DigitValue(c) == (CHOOSE d \in 1..10 : Digits[d] = c) - 1

\* JavaScript's < on strings: lexicographic by code unit, a proper prefix first.
StringLess(s, t) ==
  \E i \in 1..(Len(s) + 1) :
    /\ i <= Len(t)
    /\ \A j \in 1..(i - 1) : s[j] = t[j]
    /\ \/ i = Len(s) + 1
       \/ CharCode[s[i]] < CharCode[t[i]]

\* Number.prototype.toString for a non-negative integer.
RECURSIVE NumberToString(_)
NumberToString(n) ==
  IF n < 10 THEN <<Digits[n + 1]>>
  ELSE NumberToString(n \div 10) \o <<Digits[(n % 10) + 1]>>

\* Value of the longest prefix of decimal digits of s, after acc digits read.
RECURSIVE ParseDigits(_, _, _)
ParseDigits(s, i, acc) ==
  IF i > Len(s) \/ ~IsDigit(s[i]) THEN acc
  ELSE ParseDigits(s, i + 1, acc * 10 + DigitValue(s[i]))

\* parseInt(s, 10) and Number.parseInt(s, 0) on strings without sign, blank or
\* 0x prefix: <<n>> for the leading digits, <<>> (NaN) when s starts with none.
ParseInt(s) ==
  IF Len(s) = 0 \/ ~IsDigit(s[1]) THEN <<>> ELSE <<ParseDigits(s, 1, 0)>>

\* _.split(s, ",") for a non-empty s.
RECURSIVE SplitFrom(_, _, _)
SplitFrom(s, i, token) ==
  IF i > Len(s) THEN <<token>>
  ELSE IF s[i] = "," THEN <<token>> \o SplitFrom(s, i + 1, <<>>)
  ELSE SplitFrom(s, i + 1, Append(token, s[i]))

Split(s) == SplitFrom(s, 1, <<>>)

\* _.join(parts, sep)
RECURSIVE Join(_, _)
Join(parts, sep) ==
  IF Len(parts) = 0 THEN <<>>
  ELSE IF Len(parts) = 1 THEN parts[1]
  ELSE parts[1] \o sep \o Join(Tail(parts), sep)

\* ------------------------------------------------------------- collections

Range(s) == {s[i] : i \in DOMAIN s}

\* _.filter on an array.
RECURSIVE SelectIDs(_, _)
SelectIDs(s, keep) ==
  IF Len(s) = 0 THEN <<>>
  ELSE (IF s[1] \in keep THEN <<s[1]>> ELSE <<>>) \o SelectIDs(Tail(s), keep)

\* _.union(a, b): a then b, each value kept at its first occurrence.
RECURSIVE Uniq(_, _)
Uniq(s, seen) ==
  IF Len(s) = 0 THEN <<>>
  ELSE IF s[1] \in seen THEN Uniq(Tail(s), seen)
  ELSE <<s[1]>> \o Uniq(Tail(s), seen \cup {s[1]})

Union(a, b) == Uniq(a \o b, {})

\* The ascending enumeration of a finite set of integers (the key order of a
\* JavaScript object whose keys are integer indices).
RECURSIVE Ascending(_)
Ascending(S) ==
  IF S = {} THEN <<>>
  ELSE LET m == CHOOSE x \in S : \A y \in S : x <= y
       IN  <<m>> \o Ascending(S \ {m})

RECURSIVE Flatten(_)
Flatten(ss) == IF Len(ss) = 0 THEN <<>> ELSE ss[1] \o Flatten(Tail(ss))

RECURSIVE SeqSum(_)
SeqSum(s) == IF Len(s) = 0 THEN 0 ELSE s[1] + SeqSum(Tail(s))

\* -------------------------------------------------------------- data model

\* src/redux/nodes LivenessStatus; "NONE" is a node without a liveness record.
LivenessStatus == {"HEALTHY", "SUSPECT", "DEAD"}

NoLiveness == "NONE"

\* The nodes of the cluster: the three nodes of the example.
AllNodes == {1, 2, 3}

\* Peers that report no status of their own.
UnknownPeers == {4}

NanosPerMilli == 1000000

\* src/util/convert NanoToMilli.
NanoToMilli(nano) == nano \div NanosPerMilli

Tier(k, v) == [key |-> k, value |-> v]

East == <<Tier(<<"d", "c">>, <<"e", "a", "s", "t">>)>>

West == <<Tier(<<"d", "c">>, <<"w", "e", "s", "t">>)>>

\* Locality tier lists a node may report.
Localities == {<< >>, East, West}

\* Durations a refresh may change a latency entry to, in nanoseconds.
Durations == {0, 1 * NanosPerMilli, 50 * NanosPerMilli}

\* Values of the node_ids query parameter: absent, "1,2", "2,1", "x,0,3".
NodeIDsQueries ==
  {<< >>, <<"1", ",", "2">>, <<"2", ",", "1">>, <<"x", ",", "0", ",", "3">>}

\* Values of the locality query parameter: absent, "east", "dc=", "(".
LocalityQueries ==
  {<< >>, <<"e", "a", "s", "t">>, <<"d", "c", "=">>, <<"(">>}

Address(n) == <<"a">> \o NumberToString(n)

NodeStatus(n, loc, lat) ==
  [node_id |-> n, address |-> Address(n), locality |-> loc, latencies |-> lat]

VARIABLES
  nodesSummary,   \* props.nodesSummary: nodeStatuses, livenessStatusByNodeID
  location,       \* props.location.query: node_ids, locality
  edits,          \* changes of the store and the route since first load
  view            \* what render() computed from the props; shown = "stale"
                  \* while the props are not rendered yet

vars == <<nodesSummary, location, edits, view>>

\* nodesSummary.nodeIDs: the node ids of the statuses, as strings.
nodeIDs(ns) ==
  [i \in DOMAIN ns.nodeStatuses |-> NumberToString(ns.nodeStatuses[i].node_id)]

HasStatus(ns, id) == \E i \in DOMAIN ns.nodeStatuses : ns.nodeStatuses[i].node_id = id

\* nodesSummary.nodeStatusByID[id]
nodeStatusByID(ns, id) ==
  ns.nodeStatuses[CHOOSE i \in DOMAIN ns.nodeStatuses : ns.nodeStatuses[i].node_id = id]

LivenessKeys == {NumberToString(n) : n \in AllNodes}

\* _.isEmpty(nodesSummary.livenessStatusByNodeID)
LivenessIsEmpty(ns) ==
  \A k \in LivenessKeys : ns.livenessStatusByNodeID[k] = NoLiveness

\* ------------------------------------------------------------ filter input

getNodeIDs(input) ==
  IF Len(input) = 0 THEN {}
  ELSE {ParseInt(t)[1] :
          t \in {u \in Range(Split(input)) : ParseInt(u) # << >> /\ ParseInt(u)[1] # 0}}

localityToString(locality) ==
  Join([i \in DOMAIN locality |-> locality[i].key \o <<"=">> \o locality[i].value],
       <<",">>)

\* new RegExp(text) throws for an unterminated group; the texts of the model
\* hold no other regular expression syntax.
RegExpThrows(text) == \E i \in DOMAIN text : text[i] = "("

\* The locality filter of render(): << >> is null, <<p>> the compiled pattern.
LocalityRegExp(text) ==
  IF Len(text) = 0 THEN << >>
  ELSE IF RegExpThrows(text) THEN << >>
  ELSE <<text>>

\* RegExp.prototype.test for a pattern of literal characters.
RegExpTest(pattern, s) ==
  \E i \in 0..(Len(s) - Len(pattern)) : SubSeq(s, i + 1, i + Len(pattern)) = pattern

\* ------------------------------------------------------------------ render

\* _.sortBy on identities by nodeID: a stable sort, so an element's place is
\* the number of elements with a smaller key, or an equal key and an earlier
\* position.
SortByNodeID(s) ==
  LET Before(j, i) ==
        \/ s[j].nodeID < s[i].nodeID
        \/ s[j].nodeID = s[i].nodeID /\ j < i
      Place(i) == Cardinality({j \in DOMAIN s : Before(j, i)}) + 1
  IN  [k \in DOMAIN s |-> s[CHOOSE i \in DOMAIN s : Place(i) = k]]

\* _.sortBy on identities by locality (string comparison), stable.
SortByLocality(s) ==
  LET Before(j, i) ==
        \/ StringLess(s[j].locality, s[i].locality)
        \/ s[j].locality = s[i].locality /\ j < i
      Place(i) == Cardinality({j \in DOMAIN s : Before(j, i)}) + 1
  IN  [k \in DOMAIN s |-> s[CHOOSE i \in DOMAIN s : Place(i) = k]]

Identity(status) ==
  [nodeID   |-> status.node_id,
   address  |-> status.address,
   locality |-> localityToString(status.locality)]

\* identityByID.get(id), for an id that has a status.
identityByID(ns, id) == Identity(nodeStatusByID(ns, id))

\* The ids of nodesSummary.nodeIDs whose liveness is status, parsed to numbers.
LivenessIDs(ns, status) ==
  LET ids  == nodeIDs(ns)
      kept == SelectIDs(ids, {k \in Range(ids) : ns.livenessStatusByNodeID[k] = status})
  IN  [i \in DOMAIN kept |-> ParseInt(kept[i])[1]]

\* ApplyFilters with the locality pattern selecting the nodes it matches
\* instead of hiding them.
ApplyFiltersKeepMatching(ns, requestedIDs, locality, ids) ==
  LET requested == IF Cardinality(requestedIDs) > 0
                   THEN SelectIDs(ids, requestedIDs)
                   ELSE ids
  IN  IF locality # << >>
      THEN SelectIDs(requested,
             {n \in Range(requested) :
                RegExpTest(locality[1],
                           localityToString(nodeStatusByID(ns, n).locality))})
      ELSE requested

\* The requested-ids filter and the locality filter of render(), on a list of ids.
ApplyFilters(ns, requestedIDs, locality, ids) ==
  LET requested == IF Cardinality(requestedIDs) > 0
                   THEN SelectIDs(ids, requestedIDs)
                   ELSE ids
  IN  IF locality # << >>
      THEN SelectIDs(requested,
             {n \in Range(requested) :
                ~RegExpTest(locality[1],
                            localityToString(nodeStatusByID(ns, n).locality))})
      ELSE requested

healthyIDsOf(ns, requestedIDs, locality) ==
  ApplyFilters(ns, requestedIDs, locality, LivenessIDs(ns, "HEALTHY"))

staleIDsOf(ns, requestedIDs, locality) ==
  ApplyFilters(ns, requestedIDs, locality, LivenessIDs(ns, "SUSPECT"))

IdentitiesOf(ns, ids) == [i \in DOMAIN ids |-> identityByID(ns, ids[i])]

\* displayIdentities with the two sort passes in the other order.
displayIdentitiesLocalityFirst(ns, healthy, stale) ==
  SortByNodeID(SortByLocality(IdentitiesOf(ns, Union(healthy, stale))))

displayIdentitiesOf(ns, healthy, stale) ==
  SortByLocality(SortByNodeID(IdentitiesOf(ns, Union(healthy, stale))))

staleIdentitiesOf(ns, stale) ==
  SortByLocality(SortByNodeID(IdentitiesOf(ns, stale)))

\* _.without(healthyIDs, nodeIDa)
Without(ids, a) == SelectIDs(ids, Range(ids) \ {a})

\* latency.toNumber() is called on undefined when node a has no entry for a
\* healthy peer b: a TypeError.
LatenciesThrows(ns, healthy) ==
  \E a \in Range(healthy) : \E b \in Range(healthy) :
    a # b /\ b \notin DOMAIN nodeStatusByID(ns, a).latencies

\* The latency samples in milliseconds, when no entry is missing.
latenciesOf(ns, healthy) ==
  Flatten([i \in DOMAIN healthy |->
    LET peers == Without(healthy, healthy[i])
        ms    == [j \in DOMAIN peers |->
                    NanoToMilli(nodeStatusByID(ns, healthy[i]).latencies[peers[j]])]
    IN  SelectIDs(ms, {x \in Range(ms) : x > 0})])

\* -------------------------------------------------------------- statistics

\* d3.mean: undefined for an empty list, else the fraction num/den.
d3Mean(xs) ==
  IF Len(xs) = 0 THEN [defined |-> FALSE, num |-> 0, den |-> 1]
  ELSE [defined |-> TRUE, num |-> SeqSum(xs), den |-> Len(xs)]

\* The population variance (denominator n), defined from one value on.
d3VariancePopulation(xs) ==
  LET n == Len(xs)
      S == SeqSum(xs)
      Q == SeqSum([i \in DOMAIN xs |-> xs[i] * xs[i]])
  IN  IF n < 1 THEN [defined |-> FALSE, num |-> 0, den |-> 1]
      ELSE [defined |-> TRUE, num |-> n * Q - S * S, den |-> n * n]

\* d3.variance: undefined for fewer than two values, else the unbiased
\* variance (n*sum(x^2) - sum(x)^2) / (n*(n-1)).
d3Variance(xs) ==
  LET n == Len(xs)
      S == SeqSum(xs)
      Q == SeqSum([i \in DOMAIN xs |-> xs[i] * xs[i]])
  IN  IF n < 2 THEN [defined |-> FALSE, num |-> 0, den |-> 1]
      ELSE [defined |-> TRUE, num |-> n * Q - S * S, den |-> n * (n - 1)]

\* d3.deviation: the square root of the variance, undefined when that is; the
\* value is kept as its square.
d3Deviation(xs) == d3Variance(xs)

\* A number mnum/mden + k*sqrt(vnum/vden), or NaN.
NaN == [nan |-> TRUE, mnum |-> 0, mden |-> 1, k |-> 0, vnum |-> 0, vden |-> 1]

\* ToNumber(mean): NaN for undefined.
ToNumber(mean) ==
  IF ~mean.defined THEN NaN
  ELSE [nan |-> FALSE, mnum |-> mean.num, mden |-> mean.den,
        k |-> 0, vnum |-> 0, vden |-> 1]

\* x + sign*stddev; NaN when either operand is NaN or undefined.
AddStddev(x, stddev, sign) ==
  IF x.nan \/ ~stddev.defined THEN NaN
  ELSE [x EXCEPT !.k = @ + sign, !.vnum = stddev.num, !.vden = stddev.den]

stddevPlus1Of(mean, stddev) == AddStddev(ToNumber(mean), stddev, 1)

stddevPlus2Of(mean, stddev) == AddStddev(stddevPlus1Of(mean, stddev), stddev, 1)

stddevMinus1Of(mean, stddev) == AddStddev(ToNumber(mean), stddev, -1)

stddevMinus2Of(mean, stddev) == AddStddev(stddevMinus1Of(mean, stddev), stddev, -1)

\* (latency - mean) * mden, and the two sides of the squared comparison of
\* |latency - mean| with |k| * stddev.
Offset(latency, x) == latency * x.mden - x.mnum

OffsetSquared(latency, x) == Offset(latency, x) * Offset(latency, x) * x.vden

SpreadSquared(x) == x.k * x.k * x.vnum * x.mden * x.mden

\* latency > x; false when x is NaN.
GreaterThan(latency, x) ==
  /\ ~x.nan
  /\ IF x.k = 0 THEN Offset(latency, x) > 0
     ELSE IF x.k > 0
     THEN Offset(latency, x) > 0 /\ OffsetSquared(latency, x) > SpreadSquared(x)
     ELSE Offset(latency, x) >= 0 \/ OffsetSquared(latency, x) < SpreadSquared(x)

\* latency < x; false when x is NaN.
LessThan(latency, x) ==
  /\ ~x.nan
  /\ IF x.k = 0 THEN Offset(latency, x) < 0
     ELSE IF x.k < 0
     THEN Offset(latency, x) < 0 /\ OffsetSquared(latency, x) > SpreadSquared(x)
     ELSE Offset(latency, x) <= 0 \/ OffsetSquared(latency, x) < SpreadSquared(x)

Thresholds(mean, stddev) ==
  [plus1  |-> stddevPlus1Of(mean, stddev),
   plus2  |-> stddevPlus2Of(mean, stddev),
   minus1 |-> stddevMinus1Of(mean, stddev),
   minus2 |-> stddevMinus2Of(mean, stddev)]

\* ------------------------------------------------------ missing connections

NoConnection(f, t) == [from |-> f, to |-> t]

\* The keys of node a's latency map that are not healthy ids, ascending.
UnhealthyPeers(ns, healthy, a) ==
  Ascending(DOMAIN nodeStatusByID(ns, a).latencies \ Range(healthy))

\* identityByID.get(b) is undefined for a peer without a status, and the
\* first sortBy reads its nodeID: a TypeError.
NoConnectionsThrows(ns, healthy) ==
  \E a \in Range(healthy) :
    \E b \in Range(UnhealthyPeers(ns, healthy, a)) : ~HasStatus(ns, b)

\* _.sortBy on connections by the nodeID of one end, stable.
SortByEndNodeID(s, end) ==
  LET Before(j, i) ==
        \/ s[j][end].nodeID < s[i][end].nodeID
        \/ s[j][end].nodeID = s[i][end].nodeID /\ j < i
      Place(i) == Cardinality({j \in DOMAIN s : Before(j, i)}) + 1
  IN  [k \in DOMAIN s |-> s[CHOOSE i \in DOMAIN s : Place(i) = k]]

\* _.sortBy on connections by the locality of one end, stable.
SortByEndLocality(s, end) ==
  LET Before(j, i) ==
        \/ StringLess(s[j][end].locality, s[i][end].locality)
        \/ s[j][end].locality = s[i][end].locality /\ j < i
      Place(i) == Cardinality({j \in DOMAIN s : Before(j, i)}) + 1
  IN  [k \in DOMAIN s |-> s[CHOOSE i \in DOMAIN s : Place(i) = k]]

\* The connections reported for healthy node a, sorted.
NoConnectionsFrom(ns, healthy, a) ==
  LET peers == UnhealthyPeers(ns, healthy, a)
      conns == [j \in DOMAIN peers |->
                  NoConnection(identityByID(ns, a), identityByID(ns, peers[j]))]
  IN  SortByEndLocality(
        SortByEndNodeID(
          SortByEndLocality(SortByEndNodeID(conns, "to"), "to"),
          "from"),
        "from")

\* noConnections, when every reported peer has an identity.
noConnectionsOf(ns, healthy) ==
  Flatten([i \in DOMAIN healthy |-> NoConnectionsFrom(ns, healthy, healthy[i])])

\* ----------------------------------------------------------- latency cells

\* getLatencyCell with the narrower band tested before the wider one.
getLatencyCellNarrowFirst(ns, staleIDs, th, nodeIDa, nodeIDb) ==
  IF nodeIDa = nodeIDb THEN "self"
  ELSE IF nodeIDa \in staleIDs \/ nodeIDb \in staleIDs THEN "no-connection"
  ELSE IF nodeIDb \notin DOMAIN nodeStatusByID(ns, nodeIDa).latencies
  THEN "no-connection"
  ELSE LET latency == NanoToMilli(nodeStatusByID(ns, nodeIDa).latencies[nodeIDb])
       IN  IF GreaterThan(latency, th.plus1) THEN "stddev-plus-1"
           ELSE IF GreaterThan(latency, th.plus2) THEN "stddev-plus-2"
           ELSE IF LessThan(latency, th.minus1) THEN "stddev-minus-1"
           ELSE IF LessThan(latency, th.minus2) THEN "stddev-minus-2"
           ELSE "stddev-even"

\* getLatencyCell with the stale test on the row node only.
getLatencyCellStaleRowOnly(ns, staleIDs, th, nodeIDa, nodeIDb) ==
  IF nodeIDa = nodeIDb THEN "self"
  ELSE IF nodeIDa \in staleIDs THEN "no-connection"
  ELSE IF nodeIDb \notin DOMAIN nodeStatusByID(ns, nodeIDa).latencies
  THEN "no-connection"
  ELSE LET latency == NanoToMilli(nodeStatusByID(ns, nodeIDa).latencies[nodeIDb])
       IN  IF GreaterThan(latency, th.plus2) THEN "stddev-plus-2"
           ELSE IF GreaterThan(latency, th.plus1) THEN "stddev-plus-1"
           ELSE IF LessThan(latency, th.minus2) THEN "stddev-minus-2"
           ELSE IF LessThan(latency, th.minus1) THEN "stddev-minus-1"
           ELSE "stddev-even"

getLatencyCell(ns, staleIDs, th, nodeIDa, nodeIDb) ==
  IF nodeIDa = nodeIDb THEN "self"
  ELSE IF nodeIDa \in staleIDs \/ nodeIDb \in staleIDs THEN "no-connection"
  ELSE IF nodeIDb \notin DOMAIN nodeStatusByID(ns, nodeIDa).latencies
  THEN "no-connection"
  ELSE LET latency == NanoToMilli(nodeStatusByID(ns, nodeIDa).latencies[nodeIDb])
       IN  IF GreaterThan(latency, th.plus2) THEN "stddev-plus-2"
           ELSE IF GreaterThan(latency, th.plus1) THEN "stddev-plus-1"
           ELSE IF LessThan(latency, th.minus2) THEN "stddev-minus-2"
           ELSE IF LessThan(latency, th.minus1) THEN "stddev-minus-1"
           ELSE "stddev-even"

\* The cells of latencyTable: one per ordered pair of displayed identities.
latencyTableOf(ns, staleIDs, th, display) ==
  LET ids == {display[i].nodeID : i \in DOMAIN display}
  IN  [pair \in ids \X ids |-> getLatencyCell(ns, staleIDs, th, pair[1], pair[2])]

\* ---------------------------------------------------------------- render()

NotRendered ==
  [shown             |-> "stale",
   raised            |-> "none",
   requestedIDs      |-> {},
   locality          |-> << >>,
   healthyIDs        |-> << >>,
   staleIDs          |-> {},
   displayIdentities |-> << >>,
   staleIdentities   |-> << >>,
   latencies         |-> << >>,
   mean              |-> d3Mean(<< >>),
   stddev            |-> d3Deviation(<< >>),
   thresholds        |-> Thresholds(d3Mean(<< >>), d3Deviation(<< >>)),
   noConnections     |-> << >>,
   cells             |-> << >>]

\* mean.toFixed(2) in the legend is called on undefined when there is no
\* latency sample: a TypeError.
LegendThrows(mean) == ~mean.defined

\* Where render() throws, if it does; statements run in source order.
RaisedOf(ns, healthy, mean) ==
  IF LatenciesThrows(ns, healthy) THEN "latencies"
  ELSE IF NoConnectionsThrows(ns, healthy) THEN "noConnections"
  ELSE IF LegendThrows(mean) THEN "legend"
  ELSE "none"

\* render(): the values it computes, up to the statement that throws.
RenderOf(ns, query) ==
  IF Len(nodeIDs(ns)) = 0 \/ LivenessIsEmpty(ns)
  THEN [NotRendered EXCEPT !.shown = "loading"]
  ELSE
    LET requestedIDs == getNodeIDs(query.node_ids)
        locality     == LocalityRegExp(query.locality)
        healthy      == healthyIDsOf(ns, requestedIDs, locality)
        stale        == staleIDsOf(ns, requestedIDs, locality)
        display      == displayIdentitiesOf(ns, healthy, stale)
        gotSamples   == ~LatenciesThrows(ns, healthy)
        samples      == IF gotSamples THEN latenciesOf(ns, healthy) ELSE << >>
        mean         == d3Mean(samples)
        stddev       == d3Deviation(samples)
        th           == Thresholds(mean, stddev)
        raised       == RaisedOf(ns, healthy, mean)
        gotConns     == raised \in {"none", "legend"}
    IN  [shown             |-> IF raised # "none" THEN "error"
                               ELSE IF Len(display) = 0 THEN "noNodes"
                               ELSE "report",
         raised            |-> raised,
         requestedIDs      |-> requestedIDs,
         locality          |-> locality,
         healthyIDs        |-> healthy,
         staleIDs          |-> Range(stale),
         displayIdentities |-> display,
         staleIdentities   |-> staleIdentitiesOf(ns, stale),
         latencies         |-> samples,
         mean              |-> mean,
         stddev            |-> stddev,
         thresholds        |-> th,
         noConnections     |-> IF gotConns THEN noConnectionsOf(ns, healthy) ELSE << >>,
         cells             |-> IF gotConns
                               THEN latencyTableOf(ns, Range(stale), th, display)
                               ELSE << >>]

\* ----------------------------------------------------------- first loads

\* Latency of the three-node example: 5 ms between n1 and n2, 50 ms between
\* n1 and any other node, 6 ms between the rest.
ExampleLatency(a, b) ==
  IF {a, b} = {1, 2} THEN 5 * NanosPerMilli
  ELSE IF 1 \in {a, b} THEN 50 * NanosPerMilli
  ELSE 6 * NanosPerMilli

\* n1, n2 in dc=east and the others in dc=west, latencies of the example.
ExampleStatuses ==
  [n \in AllNodes |->
     NodeStatus(n, IF n <= 2 THEN East ELSE West,
                [b \in AllNodes \ {n} |-> ExampleLatency(n, b)])]

MeshLatency(a, b) == 5 * NanosPerMilli

\* Odd nodes in dc=east and even nodes in dc=west, every latency 5 ms.
MeshStatuses ==
  [n \in AllNodes |->
     NodeStatus(n, IF n % 2 = 1 THEN East ELSE West,
                [b \in AllNodes \ {n} |-> MeshLatency(n, b)])]

Clusters == {ExampleStatuses, MeshStatuses}

\* Every node HEALTHY.
AllHealthy == [k \in LivenessKeys |-> "HEALTHY"]

\* n3 SUSPECT, the others HEALTHY.
LastSuspect ==
  [k \in LivenessKeys |-> IF ParseInt(k)[1] = 3 THEN "SUSPECT" ELSE "HEALTHY"]

\* n1 HEALTHY, n2 SUSPECT, n3 DEAD.
Mixed ==
  [k \in LivenessKeys |->
     IF ParseInt(k)[1] = 1 THEN "HEALTHY"
     ELSE IF ParseInt(k)[1] = 2 THEN "SUSPECT"
     ELSE "DEAD"]

Livenesses == {AllHealthy, LastSuspect, Mixed}

\* ------------------------------------------------------------------ actions

Init ==
  /\ nodesSummary = [nodeStatuses |-> << >>,
                     livenessStatusByNodeID |-> [k \in LivenessKeys |-> NoLiveness]]
  /\ location = [node_ids |-> << >>, locality |-> << >>]
  /\ edits = 0
  /\ view = NotRendered

\* New props reach the component after it has rendered the previous ones.
PropsRendered == view.shown # "stale"

\* refreshNodes: the first node statuses arrive.
ReceiveNodes ==
  /\ PropsRendered
  /\ Len(nodesSummary.nodeStatuses) = 0
  /\ \E statuses \in Clusters :
       nodesSummary' = [nodesSummary EXCEPT !.nodeStatuses = statuses]
  /\ view' = NotRendered
  /\ UNCHANGED <<location, edits>>

\* refreshLiveness: the first liveness statuses arrive.
ReceiveLiveness ==
  /\ PropsRendered
  /\ LivenessIsEmpty(nodesSummary)
  /\ \E liveness \in Livenesses :
       nodesSummary' = [nodesSummary EXCEPT !.livenessStatusByNodeID = liveness]
  /\ view' = NotRendered
  /\ UNCHANGED <<location, edits>>

\* One more change of the store or the route, which the component renders.
Edited ==
  /\ PropsRendered
  /\ edits < MaxEdits
  /\ edits' = edits + 1
  /\ view' = NotRendered

\* A refresh in which node a reports duration d for peer b.
UpdateLatency ==
  /\ Edited
  /\ \E i \in DOMAIN nodesSummary.nodeStatuses :
       \E b \in (AllNodes \cup UnknownPeers) \ {nodesSummary.nodeStatuses[i].node_id} :
         \E d \in Durations :
           LET old == nodesSummary.nodeStatuses[i].latencies
               new == [p \in DOMAIN old \cup {b} |-> IF p = b THEN d ELSE old[p]]
           IN  /\ new # old
               /\ nodesSummary' =
                    [nodesSummary EXCEPT !.nodeStatuses[i].latencies = new]
  /\ UNCHANGED location

\* A refresh in which node a no longer reports peer b.
DropLatency ==
  /\ Edited
  /\ \E i \in DOMAIN nodesSummary.nodeStatuses :
       LET old == nodesSummary.nodeStatuses[i].latencies
       IN  \E b \in DOMAIN old :
             nodesSummary' =
               [nodesSummary EXCEPT
                  !.nodeStatuses[i].latencies = [p \in DOMAIN old \ {b} |-> old[p]]]
  /\ UNCHANGED location

\* A refresh in which a node reports other locality tiers.
UpdateLocality ==
  /\ Edited
  /\ \E i \in DOMAIN nodesSummary.nodeStatuses :
       \E loc \in Localities \ {nodesSummary.nodeStatuses[i].locality} :
         nodesSummary' = [nodesSummary EXCEPT !.nodeStatuses[i].locality = loc]
  /\ UNCHANGED location

\* A refresh in which the statuses arrive in another order.
ReorderStatuses ==
  /\ Edited
  /\ \E i \in 1..(Len(nodesSummary.nodeStatuses) - 1) :
       LET old == nodesSummary.nodeStatuses
       IN  nodesSummary' =
             [nodesSummary EXCEPT
                !.nodeStatuses = [old EXCEPT ![i] = old[i + 1], ![i + 1] = old[i]]]
  /\ UNCHANGED location

\* A refresh in which the liveness of one node changes.
UpdateLiveness ==
  /\ Edited
  /\ ~LivenessIsEmpty(nodesSummary)
  /\ \E k \in LivenessKeys :
       \E status \in (LivenessStatus \cup {NoLiveness})
                       \ {nodesSummary.livenessStatusByNodeID[k]} :
         nodesSummary' = [nodesSummary EXCEPT !.livenessStatusByNodeID[k] = status]
  /\ UNCHANGED location

\* The route changes: another node_ids or locality query parameter.
ChangeLocation ==
  /\ Edited
  /\ \/ \E text \in NodeIDsQueries \ {location.node_ids} :
          location' = [location EXCEPT !.node_ids = text]
     \/ \E text \in LocalityQueries \ {location.locality} :
          location' = [location EXCEPT !.locality = text]
  /\ UNCHANGED nodesSummary

Render ==
  /\ view.shown = "stale"
  /\ view' = RenderOf(nodesSummary, location)
  /\ UNCHANGED <<nodesSummary, location, edits>>

Next ==
  \/ ReceiveNodes
  \/ ReceiveLiveness
  \/ UpdateLatency
  \/ DropLatency
  \/ UpdateLocality
  \/ ReorderStatuses
  \/ UpdateLiveness
  \/ ChangeLocation
  \/ Render

Spec == Init /\ [][Next]_vars

\* --------------------------------------------------------------- properties

\* render() went past the loading check.
Rendered == view.shown \in {"report", "noNodes", "error"}

\* render() built the latency table.
HasCells == Rendered /\ view.raised \in {"none", "legend"}

DisplayedIDs == {view.displayIdentities[i].nodeID : i \in DOMAIN view.displayIdentities}

LatencyMap(a) == nodeStatusByID(nodesSummary, a).latencies

HasEntry(a, b) == b \in DOMAIN LatencyMap(a)

Millis(a, b) == LatencyMap(a)[b] \div 1000000

SampleCount == Len(view.latencies)

SampleSum == SeqSum(view.latencies)

SampleSquares == SeqSum([i \in DOMAIN view.latencies |-> view.latencies[i] * view.latencies[i]])

\* |x - mean| > k * stddev for the samples of the view, with at least two
\* samples: (n*x - S)^2 * (n-1) > k^2 * n * (n*Q - S^2).
Beyond(x, k) ==
  /\ SampleCount >= 2
  /\ (SampleCount * x - SampleSum) * (SampleCount * x - SampleSum) * (SampleCount - 1)
       > k * k * SampleCount * (SampleCount * SampleSquares - SampleSum * SampleSum)

Above(x, k) == SampleCount * x > SampleSum /\ Beyond(x, k)

Below(x, k) == SampleCount * x < SampleSum /\ Beyond(x, k)

\* The band the decision order of the pairwise classifier gives a pair.
ExpectedBand(a, b) ==
  CASE a = b -> "self"
    [] a # b /\ (a \in view.staleIDs \/ b \in view.staleIDs) -> "no-connection"
    [] a # b /\ a \notin view.staleIDs /\ b \notin view.staleIDs /\ ~HasEntry(a, b)
         -> "no-connection"
    [] OTHER ->
         CASE Above(Millis(a, b), 2) -> "stddev-plus-2"
           [] ~Above(Millis(a, b), 2) /\ Above(Millis(a, b), 1) -> "stddev-plus-1"
           [] ~Above(Millis(a, b), 1) /\ Below(Millis(a, b), 2) -> "stddev-minus-2"
           [] ~Above(Millis(a, b), 1) /\ ~Below(Millis(a, b), 2) /\ Below(Millis(a, b), 1)
                -> "stddev-minus-1"
           [] OTHER -> "stddev-even"

\* C1: every cell of the latency table holds the band of the first matching
\* rule: self for a node with itself, else no-connection when either node is
\* stale, else no-connection without a latency entry, else plus-2 above
\* mean + 2 stddev, else plus-1 above mean + stddev, else minus-2 below
\* mean - 2 stddev, else minus-1 below mean - stddev, else even.
\* The classifier is also applied to the displayed pairs of a render() that
\* threw before the table was built, with the thresholds computed until then.
C1_FirstMatchBand ==
  /\ HasCells =>
       /\ DOMAIN view.cells = DisplayedIDs \X DisplayedIDs
       /\ \A pair \in DOMAIN view.cells :
            view.cells[pair] = ExpectedBand(pair[1], pair[2])
  /\ Rendered =>
       \A a \in DisplayedIDs : \A b \in DisplayedIDs :
         getLatencyCell(nodesSummary, view.staleIDs, view.thresholds, a, b)
           = ExpectedBand(a, b)

CellsOf(band) == {pair \in DOMAIN view.cells : view.cells[pair] = band}

\* A table that holds a self cell, a cell more than two deviations above the
\* mean and a cell within one deviation of it.
C1_Witness ==
  /\ HasCells
  /\ CellsOf("self") # {}
  /\ CellsOf("stddev-plus-2") # {}
  /\ CellsOf("stddev-even") # {}

\* C2 as stated: a stale node b makes classify(a, b) no-connection for every
\* displayed node a, b itself included.
C2_StaleColumnAllNoConnection ==
  HasCells =>
    \A a \in DisplayedIDs : \A b \in view.staleIDs \cap DisplayedIDs :
      view.cells[<<a, b>>] = "no-connection"

\* C2 amended: a stale node b makes classify(a, b) and classify(b, a)
\* no-connection for every displayed node a other than b, with or without a
\* latency entry; classify(b, b) is self.
C2_StaleNoConnectionExceptSelf ==
  HasCells =>
    \A a \in DisplayedIDs : \A b \in view.staleIDs \cap DisplayedIDs :
      /\ a # b => view.cells[<<a, b>>] = "no-connection"
      /\ a # b => view.cells[<<b, a>>] = "no-connection"
      /\ view.cells[<<b, b>>] = "self"

\* A healthy node with a latency entry for a stale node, whose cell is
\* no-connection.
C2_Witness ==
  /\ HasCells
  /\ \E a \in DisplayedIDs \ view.staleIDs : \E b \in view.staleIDs :
       /\ HasEntry(a, b)
       /\ Millis(a, b) > 0
       /\ view.cells[<<a, b>>] = "no-connection"

StatusIDs == {nodesSummary.nodeStatuses[i].node_id : i \in DOMAIN nodesSummary.nodeStatuses}

LivenessOfNode(n) == nodesSummary.livenessStatusByNodeID[NumberToString(n)]

LocalityString(n) == localityToString(nodeStatusByID(nodesSummary, n).locality)

\* The node passes the filter of the view: requested when ids are requested,
\* and its locality not matched by the pattern when there is one.
PassesFilter(n) ==
  /\ view.requestedIDs # {} => n \in view.requestedIDs
  /\ view.locality # << >> => ~RegExpTest(view.locality[1], LocalityString(n))

NoDuplicates(s) == \A i \in DOMAIN s : \A j \in DOMAIN s : s[i] = s[j] => i = j

IdentitySet(ids) ==
  {[nodeID |-> n, address |-> nodeStatusByID(nodesSummary, n).address,
    locality |-> LocalityString(n)] : n \in ids}

\* C3: healthyIDs are exactly the HEALTHY nodes and staleIDs exactly the
\* SUSPECT nodes that pass the filter (requested ids, when any are requested;
\* locality not matching the pattern, when there is one); the two are
\* disjoint; displayIdentities holds exactly the identities of their union
\* and staleIdentities those of staleIDs; with an empty filter the two sets
\* together count the HEALTHY and SUSPECT nodes.
C3_HealthyStalePartition ==
  Rendered =>
    /\ NoDuplicates(view.healthyIDs)
    /\ Range(view.healthyIDs) =
         {n \in StatusIDs : LivenessOfNode(n) = "HEALTHY" /\ PassesFilter(n)}
    /\ view.staleIDs =
         {n \in StatusIDs : LivenessOfNode(n) = "SUSPECT" /\ PassesFilter(n)}
    /\ Range(view.healthyIDs) \cap view.staleIDs = {}
    /\ Range(view.displayIdentities) = IdentitySet(Range(view.healthyIDs) \cup view.staleIDs)
    /\ Range(view.staleIdentities) = IdentitySet(view.staleIDs)
    /\ \A n \in StatusIDs :
         LivenessOfNode(n) \notin {"HEALTHY", "SUSPECT"} =>
           /\ \A i \in DOMAIN view.displayIdentities : view.displayIdentities[i].nodeID # n
           /\ \A i \in DOMAIN view.staleIdentities : view.staleIdentities[i].nodeID # n
    /\ (view.requestedIDs = {} /\ view.locality = << >>) =>
         Len(view.healthyIDs) + Cardinality(view.staleIDs) =
           Cardinality({n \in StatusIDs : LivenessOfNode(n) \in {"HEALTHY", "SUSPECT"}})

\* A render with requested ids and a locality pattern, a node that is
\* neither HEALTHY nor SUSPECT, a SUSPECT node hidden by the pattern or the
\* requested ids, and a node still displayed.
C3_Witness ==
  /\ Rendered
  /\ view.requestedIDs # {}
  /\ view.locality # << >>
  /\ \E n \in StatusIDs : LivenessOfNode(n) = "DEAD"
  /\ \E n \in StatusIDs :
       LivenessOfNode(n) \in {"HEALTHY", "SUSPECT"} /\ n \in view.requestedIDs
       /\ RegExpTest(view.locality[1], LocalityString(n))
  /\ Len(view.displayIdentities) > 0

\* The pairs the missing-connection detector is to report.
MissingPairs ==
  {pair \in Range(view.healthyIDs) \X (AllNodes \cup UnknownPeers) :
     HasEntry(pair[1], pair[2]) /\ pair[2] \notin Range(view.healthyIDs)}

\* C4: after render() the noConnections list holds exactly one entry
\* {from: A, to: B} for each healthy A and each key B of A's latency map that
\* is not healthy, and nothing else.
C4_NoConnectionsExact ==
  Rendered =>
    /\ Len(view.noConnections) = Cardinality(MissingPairs)
    /\ \A pair \in MissingPairs :
         \E i \in DOMAIN view.noConnections :
           /\ view.noConnections[i].from.nodeID = pair[1]
           /\ view.noConnections[i].to.nodeID = pair[2]

\* a is before b, or equal to it, by from.locality, from.nodeID, to.locality,
\* to.nodeID.
ConnectionOrdered(a, b) ==
  \/ StringLess(a.from.locality, b.from.locality)
  \/ /\ a.from.locality = b.from.locality
     /\ \/ a.from.nodeID < b.from.nodeID
        \/ /\ a.from.nodeID = b.from.nodeID
           /\ \/ StringLess(a.to.locality, b.to.locality)
              \/ a.to.locality = b.to.locality /\ a.to.nodeID <= b.to.nodeID

\* C5: the whole noConnections list is ordered by from.locality, then
\* from.nodeID, then to.locality, then to.nodeID.
C5_NoConnectionsOrdered ==
  Rendered =>
    \A i \in DOMAIN view.noConnections : \A j \in DOMAIN view.noConnections :
      i < j => ConnectionOrdered(view.noConnections[i], view.noConnections[j])

IdentityOrdered(a, b) ==
  \/ StringLess(a.locality, b.locality)
  \/ a.locality = b.locality /\ a.nodeID < b.nodeID

OrderedIdentities(s) ==
  /\ \A i \in DOMAIN s : \A j \in DOMAIN s : i < j => IdentityOrdered(s[i], s[j])
  /\ SortByLocality(SortByNodeID(s)) = s

\* C6: displayIdentities and staleIdentities hold no nodeID twice, are
\* ordered by locality and, within a locality, by nodeID, and sorting them
\* again by nodeID and then by locality changes nothing.
C6_IdentitiesOrdered ==
  Rendered =>
    /\ OrderedIdentities(view.displayIdentities)
    /\ OrderedIdentities(view.staleIdentities)

Inversion(s) == \E i \in DOMAIN s : \E j \in DOMAIN s : i < j /\ s[i].nodeID > s[j].nodeID

\* Three displayed identities and two stale ones, each list with a higher
\* nodeID before a lower one.
C6_Witness ==
  /\ Rendered
  /\ Len(view.displayIdentities) >= 3
  /\ Len(view.staleIdentities) >= 2
  /\ Inversion(view.displayIdentities)
  /\ Inversion(view.staleIdentities)

\* C7: the statistics step and the missing-connection step of render() never
\* raise.
C7_NeverRaises == view.raised \notin {"latencies", "noConnections"}

DeviationBands ==
  {"stddev-plus-2", "stddev-plus-1", "stddev-minus-2", "stddev-minus-1", "stddev-even"}

\* C8: with no latency sample, a pair of distinct non-stale nodes that has a
\* latency entry is not given a deviation band.
C8_NoBandWithoutSamples ==
  (HasCells /\ SampleCount = 0) =>
    \A a \in DisplayedIDs \ view.staleIDs : \A b \in DisplayedIDs \ view.staleIDs :
      (a # b /\ HasEntry(a, b)) => view.cells[<<a, b>>] \notin DeviationBands

\* The ordered pairs of distinct healthy nodes with a positive latency entry.
SamplePairs ==
  {pair \in Range(view.healthyIDs) \X Range(view.healthyIDs) :
     pair[1] # pair[2] /\ HasEntry(pair[1], pair[2]) /\ Millis(pair[1], pair[2]) > 0}

Occurrences(s, x) == Cardinality({i \in DOMAIN s : s[i] = x})

\* C9: after render() the latency samples are, as a multiset, the
\* millisecond values of the positive entries a -> b between distinct healthy
\* nodes, one per ordered pair.
C9_SamplesExact ==
  Rendered =>
    /\ Len(view.latencies) = Cardinality(SamplePairs)
    /\ \A pair \in SamplePairs :
         Occurrences(view.latencies, Millis(pair[1], pair[2])) =
           Cardinality({q \in SamplePairs : Millis(q[1], q[2]) = Millis(pair[1], pair[2])})

\* C10: with exactly one latency sample the mean is defined, the standard
\* deviation is not, the four thresholds are NaN, and every pair of distinct
\* non-stale nodes with a latency entry is classified even.
C10_SingleSampleAllEven ==
  (HasCells /\ SampleCount = 1) =>
    /\ view.mean.defined
    /\ ~view.stddev.defined
    /\ view.thresholds.plus1.nan /\ view.thresholds.plus2.nan
    /\ view.thresholds.minus1.nan /\ view.thresholds.minus2.nan
    /\ \A a \in DisplayedIDs \ view.staleIDs : \A b \in DisplayedIDs \ view.staleIDs :
         (a # b /\ HasEntry(a, b)) => view.cells[<<a, b>>] = "stddev-even"

\* One sample, and a pair of healthy nodes whose latency differs from it and
\* is classified even.
C10_Witness ==
  /\ HasCells
  /\ SampleCount = 1
  /\ \E a \in DisplayedIDs \ view.staleIDs : \E b \in DisplayedIDs \ view.staleIDs :
       /\ a # b
       /\ HasEntry(a, b)
       /\ Millis(a, b) # view.latencies[1]
       /\ view.cells[<<a, b>>] = "stddev-even"

====
